---- MODULE Spec2Model ----
(***************************************************************************)
(* A model of the JVM dependency-analysis core of pants:                   *)
(*   CompileContext.dependencies / strict_dependencies                     *)
(*       (backend/jvm/tasks/jvm_compile/compile_context.py)                *)
(*   JvmDependencyAnalyzer.files_for_target, targets_by_file,              *)
(*       _find_all_bootstrap_jars, compute_transitive_deps_by_target,      *)
(*       compute_unused_deps  (backend/jvm/tasks/jvm_dependency_analyzer.py)*)
(* Each algorithm has its own specification over a shared build graph.     *)
(***************************************************************************)
EXTENDS Integers, Sequences, FiniteSets, TLC

\* ------------------------------------------------------------------ bounds
MaxDeps == 2         \* longest declared dependency list of a target (strict resolution)
MaxSrcs == 2         \* source files of the compiled target with recorded product deps
MaxSpecial == 1      \* targets of an unused-deps graph that are not plain JvmTargets
MaxScala == 1        \* ScalaLibrary targets (targets with java_sources) of a graph
MaxInput == 2        \* targets passed to targets_by_file

\* The targets of the build graph.  Four hold every shape the analysis tells apart:
\* the compiled target and three others, enough for a derivation chain of three
\* declared dependencies, for an alias inside an alias that names a library, and
\* for an unused dependency with two used transitive dependencies.
Targets == 1..4
LastTarget == Cardinality(Targets)

\* The target a CompileContext is built for (self.target).
Root == 1

\* Python classes of targets.  type(t) == Target is an alias; JavacPlugin is the
\* class a DependencyContext may list in compiler_plugin_types.
Kinds == {"Target", "JvmTarget", "ScalaLibrary", "JavacPlugin", "Resources", "UnpackedJars"}

VARIABLES
  \* the build graph (external BuildGraph, read only)
  dependencies,          \* target -> sequence of declared dependencies
  kind,                  \* target -> its class
  derived_from,          \* target -> the target it was generated from (itself if none)
  \* DependencyContext and CompileContext fields
  compiler_plugin_types, \* DependencyContext.compiler_plugin_types
  strict_deps,           \* CompileContext.strict_deps
  pc,                    \* position of the running operation
  \* CompileContext.dependencies
  stack,                 \* active resolve(t) generator frames, innermost last
  out,                   \* the targets yielded so far
  \* files of targets (target sources, ScalaLibrary.java_sources, the runtime classpath)
  sources,               \* target -> its source files (absolute paths)
  java_sources,          \* ScalaLibrary target -> its java_sources targets
  runtime_classpath,     \* target -> [contents: class files, jars: jar entries]
  \* compute_unused_deps
  product_deps,          \* the flattened product deps of the target
  todo,                  \* declared dependencies still to classify
  used,
  unused,
  work,                  \* the elements a loop over a set has still to visit
  replacements,
  result,                \* the returned dict (read when pc = "done")
  \* compute_transitive_deps_by_target
  targets,               \* the targets passed in
  sorted_targets,        \* the targets of the sorted list not processed yet
  transitive_deps_by_target,
  \* targets_by_file
  index_targets,         \* the iterable of targets passed in
  index_next,            \* position of the loop in it
  targets_by_file,       \* file -> OrderedSet of targets (a sequence without repeats)
  \* _find_all_bootstrap_jars
  fs,                    \* the file system: <<directory, name>> -> "file", "dir" or "none"
  cwd,                   \* the working directory of the process
  system_properties,     \* key -> [present, paths]: the path list of a property
  boot_classpath,
  override_jars,
  extension_jars,
  bootstrap_jars

graphVars == <<dependencies, kind, derived_from>>
ctxVars == <<compiler_plugin_types, strict_deps>>
strictVars == <<stack, out>>
fileVars == <<sources, java_sources, runtime_classpath>>
unusedVars == <<product_deps, todo, used, unused, work, replacements, result>>
transVars == <<targets, sorted_targets, transitive_deps_by_target>>
indexVars == <<index_targets, index_next, targets_by_file>>
bootVars == <<fs, cwd, system_properties, boot_classpath, override_jars, extension_jars,
              bootstrap_jars>>
vars == <<graphVars, ctxVars, pc, strictVars, fileVars, unusedVars, transVars, indexVars,
          bootVars>>

\* The variables an operation leaves alone because they belong to the others.
notStrict == <<fileVars, unusedVars, transVars, indexVars, bootVars>>
notUnused == <<strictVars, transVars, indexVars, bootVars>>
notTrans == <<strictVars, unusedVars, indexVars, bootVars>>
notIndex == <<strictVars, unusedVars, transVars, bootVars>>
notBoot == <<graphVars, ctxVars, fileVars, strictVars, unusedVars, transVars, indexVars>>

\* ------------------------------------------------------------ sequences
Range(s) == {s[i] : i \in 1..Len(s)}

\* Sequences over S of length at most n.
SeqsUpTo(S, n) == UNION {[1..k -> S] : k \in 0..n}

\* The functions f on t..LastTarget with f[x] \in choices[x].
RECURSIVE FunctionsFrom(_, _)
FunctionsFrom(choices, t) ==
  IF t > Cardinality(DOMAIN choices) THEN {<<>>}
  ELSE {[x \in t..Cardinality(DOMAIN choices) |-> IF x = t THEN v ELSE g[x]] :
          v \in choices[t], g \in FunctionsFrom(choices, t + 1)}

\* The elements of seq that are not in excl, in order, each once.
RECURSIVE Fresh(_, _)
Fresh(seq, excl) ==
  IF seq = <<>> THEN <<>>
  ELSE IF Head(seq) \in excl THEN Fresh(Tail(seq), excl)
  ELSE <<Head(seq)>> \o Fresh(Tail(seq), excl \cup {Head(seq)})

\* ------------------------------------------------------------ build graph
\* Target.closure(bfs=True): the target, then its transitive dependencies breadth
\* first, each once, dependencies in declaration order.
RECURSIVE bfs_walk(_, _)
bfs_walk(queue, seen) ==
  IF queue = <<>> THEN seen
  ELSE LET fresh == Fresh(dependencies[Head(queue)], Range(seen))
       IN bfs_walk(Tail(queue) \o fresh, seen \o fresh)

closure_bfs(t) == bfs_walk(<<t>>, <<t>>)

\* Target.closure(): the same targets as a set.
closure(t) == Range(closure_bfs(t))

\* type(declared) == Target
is_alias(t) == kind[t] = "Target"

\* isinstance(declared, dep_context.compiler_plugin_types)
is_compiler_plugin(t) == kind[t] \in compiler_plugin_types

\* Dependency edges only go from a target to a higher numbered one: the graph is
\* acyclic.  Lists of at most n dependencies, in any order, repeats allowed.
AcyclicGraphs(n) ==
  FunctionsFrom([t \in Targets |-> SeqsUpTo({u \in Targets : u > t}, n)], 1)

\* What the variables of an operation hold while another operation is modelled.
EmptyDict == [x \in {} |-> {}]
StrictIdle == stack = <<>> /\ out = <<>>
FilesIdle ==
  /\ sources = [t \in Targets |-> {}]
  /\ java_sources = [t \in Targets |-> {}]
  /\ runtime_classpath = [t \in Targets |-> [contents |-> {}, jars |-> {}]]
UnusedIdle ==
  /\ product_deps = {} /\ todo = <<>> /\ used = {} /\ unused = {} /\ work = {}
  /\ replacements = EmptyDict /\ result = EmptyDict

TransIdle ==
  targets = {} /\ sorted_targets = {} /\ transitive_deps_by_target = EmptyDict

IndexIdle ==
  index_targets = <<>> /\ index_next = 1 /\ targets_by_file = EmptyDict

BootIdle ==
  /\ fs = EmptyDict /\ cwd = "/" /\ system_properties = EmptyDict
  /\ boot_classpath = <<>> /\ override_jars = <<>> /\ extension_jars = <<>>
  /\ bootstrap_jars = <<>>

\* ------------------------------------------- CompileContext.dependencies
\* A frame of resolve(t): the target and the index of the next declared dependency.
Frame(t) == [t |-> t, i |-> 1]

Top == stack[Len(stack)]
Declared == dependencies[Top.t][Top.i]
Advance == [stack EXCEPT ![Len(stack)].i = @ + 1]

\* dependencies(), strict_deps true: strict_dependencies yields self.target first
\* and then runs resolve(self.target).
StrictStart ==
  /\ pc = "start"
  /\ strict_deps
  /\ out' = <<Root>>
  /\ stack' = <<Frame(Root)>>
  /\ pc' = "resolve"
  /\ UNCHANGED <<graphVars, ctxVars, notStrict>>

\* dependencies(), strict_deps false: all_dependencies is the target's BFS closure.
AllDependencies ==
  /\ pc = "start"
  /\ ~strict_deps
  /\ out' = closure_bfs(Root)
  /\ stack' = <<>>
  /\ pc' = "done"
  /\ UNCHANGED <<graphVars, ctxVars, notStrict>>

\* Faulty variant: yields the alias before recursing into it.
ResolveAlias_YieldsAlias ==
  /\ pc = "resolve" /\ stack # <<>> /\ Top.i <= Len(dependencies[Top.t])
  /\ is_alias(Declared)
  /\ stack' = Append(Advance, Frame(Declared))
  /\ out' = Append(out, Declared)
  /\ UNCHANGED <<graphVars, ctxVars, pc, notStrict>>

\* resolve: the declared dependency is an alias; recurse into it.
ResolveAlias ==
  /\ pc = "resolve" /\ stack # <<>> /\ Top.i <= Len(dependencies[Top.t])
  /\ is_alias(Declared)
  /\ stack' = Append(Advance, Frame(Declared))
  /\ UNCHANGED <<graphVars, ctxVars, pc, out, notStrict>>

\* resolve: the declared dependency is a compiler plugin; yield its whole closure.
ResolvePlugin ==
  /\ pc = "resolve" /\ stack # <<>> /\ Top.i <= Len(dependencies[Top.t])
  /\ ~is_alias(Declared) /\ is_compiler_plugin(Declared)
  /\ out' = out \o closure_bfs(Declared)
  /\ stack' = Advance
  /\ UNCHANGED <<graphVars, ctxVars, pc, notStrict>>

\* Faulty variant: yields the declared dependency and goes on into its dependencies.
ResolveYield_Expands ==
  /\ pc = "resolve" /\ stack # <<>> /\ Top.i <= Len(dependencies[Top.t])
  /\ ~is_alias(Declared) /\ ~is_compiler_plugin(Declared)
  /\ out' = Append(out, Declared)
  /\ stack' = Append(Advance, Frame(Declared))
  /\ UNCHANGED <<graphVars, ctxVars, pc, notStrict>>

\* resolve: any other declared dependency is yielded as it is.
ResolveYield ==
  /\ pc = "resolve" /\ stack # <<>> /\ Top.i <= Len(dependencies[Top.t])
  /\ ~is_alias(Declared) /\ ~is_compiler_plugin(Declared)
  /\ out' = Append(out, Declared)
  /\ stack' = Advance
  /\ UNCHANGED <<graphVars, ctxVars, pc, notStrict>>

\* resolve(t) has gone through t.dependencies: the generator returns to its caller.
ResolveReturn ==
  /\ pc = "resolve" /\ stack # <<>> /\ Top.i > Len(dependencies[Top.t])
  /\ stack' = SubSeq(stack, 1, Len(stack) - 1)
  /\ pc' = IF Len(stack) = 1 THEN "done" ELSE "resolve"
  /\ UNCHANGED <<graphVars, ctxVars, out, notStrict>>

StrictInit ==
  /\ dependencies \in AcyclicGraphs(MaxDeps)
  /\ kind \in [Targets -> {"Target", "JvmTarget", "JavacPlugin"}]
  /\ kind[Root] = "JvmTarget"
  /\ derived_from = [t \in Targets |-> t]
  /\ compiler_plugin_types \in {{}, {"JavacPlugin"}}
  /\ strict_deps \in BOOLEAN
  /\ pc = "start"
  /\ StrictIdle
  /\ FilesIdle
  /\ UnusedIdle
  /\ TransIdle
  /\ IndexIdle
  /\ BootIdle

StrictNext ==
  \/ StrictStart
  \/ AllDependencies
  \/ ResolveAlias
  \/ ResolvePlugin
  \/ ResolveYield
  \/ ResolveReturn

StrictSpec == StrictInit /\ [][StrictNext]_vars

\* ------------------------------------------------------ derivation chains
\* Target.derived_from_chain: the targets this one was generated from, nearest first
\* (as a set: the analyzer only tests membership).
RECURSIVE derived_from_chain(_)
derived_from_chain(t) ==
  IF derived_from[t] = t THEN {}
  ELSE {derived_from[t]} \cup derived_from_chain(derived_from[t])

\* Target.concrete_derived_from: the end of the chain.
RECURSIVE concrete_derived_from(_)
concrete_derived_from(t) ==
  IF derived_from[t] = t THEN t ELSE concrete_derived_from(derived_from[t])

\* derived_from assignments without a cycle: every chain reaches a target derived
\* from itself within as many steps as there are targets.
RECURSIVE Origin(_, _, _)
Origin(df, t, n) == IF n = 0 \/ df[t] = t THEN t ELSE Origin(df, df[t], n - 1)

DerivationForests ==
  {df \in [Targets -> Targets] :
     /\ df[Root] = Root
     /\ \A t \in Targets : df[t] # Root \/ t = Root
     /\ \A t \in Targets : LET o == Origin(df, t, LastTarget) IN df[o] = o}

\* ------------------------------------------------------ files_for_target
\* Absolute paths: the source file and the class file of a target, and jars.
SourceOf(t) == <<"src", t>>
ClassOf(t) == <<"class", t>>
SharedJar == <<"jar", 0>>

\* isinstance(target, JvmTarget)
is_jvm_target(t) == kind[t] \in {"JvmTarget", "ScalaLibrary", "JavacPlugin"}

\* JvmDependencyAnalyzer.files_for_target: the target's sources, the sources of a
\* ScalaLibrary's java_sources, the contents of its classpath entries and its jars.
files_for_target(t) ==
  (IF is_jvm_target(t) THEN sources[t] ELSE {})
    \cup (IF kind[t] = "ScalaLibrary"
          THEN UNION {sources[j] : j \in java_sources[t]} ELSE {})
    \cup runtime_classpath[t].contents
    \cup runtime_classpath[t].jars

\* --------------------------------------------------- compute_unused_deps
\* CompileContext.declared_dependencies(dep_context, compiler_plugins=False,
\* exported=False): the declared dependencies with aliases resolved recursively
\* and compiler plugins left out, in declaration order.
RECURSIVE declared_from(_, _)
declared_from(t, i) ==
  IF i > Len(dependencies[t]) THEN <<>>
  ELSE LET d == dependencies[t][i]
       IN (IF is_alias(d) THEN declared_from(d, 1)
           ELSE IF is_compiler_plugin(d) THEN <<>>
           ELSE <<d>>) \o declared_from(t, i + 1)

declared_dependencies == declared_from(Root, 1)

\* isinstance(dep, (Resources, UnpackedJars))
is_resources_or_unpacked(t) == kind[t] \in {"Resources", "UnpackedJars"}

\* The files a compile may have consumed: the class files of the other targets.
Files == {ClassOf(t) : t \in Targets \ {Root}}

\* Lines 167-174: flatten product_deps_by_src[target] (one entry per source file,
\* none when the target has no entry) and start the loop over the declared deps.
UnusedStart ==
  /\ pc = "start"
  /\ product_deps' \in {UNION Range(by_src) : by_src \in SeqsUpTo(SUBSET Files, MaxSrcs)}
  /\ used' = {}
  /\ unused' = {}
  /\ todo' = declared_dependencies
  /\ pc' = "classify"
  /\ UNCHANGED <<graphVars, ctxVars, fileVars, work, replacements, result, notUnused>>

\* Faulty variant: classifies Resources and UnpackedJars targets like any other.
Classify_NoSkip ==
  /\ pc = "classify" /\ todo # <<>>
  /\ LET dep == Head(todo) IN
       IF dep \in used \/ dep \in unused
       THEN UNCHANGED <<used, unused>>
       ELSE IF product_deps \cap files_for_target(dep) = {}
       THEN unused' = unused \cup {dep} /\ UNCHANGED used
       ELSE used' = used \cup {dep} /\ UNCHANGED unused
  /\ todo' = Tail(todo)
  /\ UNCHANGED <<graphVars, ctxVars, fileVars, pc, product_deps, work, replacements,
                 result, notUnused>>

\* Lines 175-188, one iteration.
Classify ==
  /\ pc = "classify" /\ todo # <<>>
  /\ LET dep == Head(todo) IN
       IF dep \in used \/ dep \in unused
       THEN UNCHANGED <<used, unused>>
       ELSE IF is_resources_or_unpacked(dep)
       THEN UNCHANGED <<used, unused>>
       ELSE IF product_deps \cap files_for_target(dep) = {}
       THEN unused' = unused \cup {dep} /\ UNCHANGED used
       ELSE used' = used \cup {dep} /\ UNCHANGED unused
  /\ todo' = Tail(todo)
  /\ UNCHANGED <<graphVars, ctxVars, fileVars, pc, product_deps, work, replacements,
                 result, notUnused>>

\* Lines 190-196: return {} when nothing is unused, else loop over list(used).
Classified ==
  /\ pc = "classify" /\ todo = <<>>
  /\ IF unused = {}
     THEN result' = EmptyDict /\ pc' = "done" /\ UNCHANGED work
     ELSE work' = used /\ pc' = "promote" /\ UNCHANGED result
  /\ UNCHANGED <<graphVars, ctxVars, fileVars, product_deps, todo, used, unused,
                 replacements, notUnused>>

\* Faulty variant: promotes only the target a used dep was generated from directly.
Promote_ParentOnly ==
  /\ pc = "promote"
  /\ \E dep \in work :
       LET moved == {derived_from[dep]} \cap unused IN
         /\ unused' = unused \ moved
         /\ used' = used \cup moved
         /\ work' = work \ {dep}
  /\ UNCHANGED <<graphVars, ctxVars, fileVars, pc, product_deps, todo, replacements,
                 result, notUnused>>

\* Lines 196-200, one iteration: the unused targets a used dep derives from are used.
Promote ==
  /\ pc = "promote"
  /\ \E dep \in work :
       LET moved == derived_from_chain(dep) \cap unused IN
         /\ unused' = unused \ moved
         /\ used' = used \cup moved
         /\ work' = work \ {dep}
  /\ UNCHANGED <<graphVars, ctxVars, fileVars, pc, product_deps, todo, replacements,
                 result, notUnused>>

\* Line 203: loop over list(unused).
Promoted ==
  /\ pc = "promote" /\ work = {}
  /\ work' = unused
  /\ pc' = "prune"
  /\ UNCHANGED <<graphVars, ctxVars, fileVars, product_deps, todo, used, unused,
                 replacements, result, notUnused>>

\* Faulty variant: prunes a target only when the target it was generated from is unused.
Prune_ParentOnly ==
  /\ pc = "prune"
  /\ \E dep \in work :
       /\ unused' = IF derived_from[dep] # dep /\ derived_from[dep] \in unused
                    THEN unused \ {dep} ELSE unused
       /\ work' = work \ {dep}
  /\ UNCHANGED <<graphVars, ctxVars, fileVars, pc, product_deps, todo, used, replacements,
                 result, notUnused>>

\* Lines 203-205, one iteration, in any order of the set.
Prune ==
  /\ pc = "prune"
  /\ \E dep \in work :
       /\ unused' = IF derived_from_chain(dep) \cap unused # {}
                    THEN unused \ {dep} ELSE unused
       /\ work' = work \ {dep}
  /\ UNCHANGED <<graphVars, ctxVars, fileVars, pc, product_deps, todo, used, replacements,
                 result, notUnused>>

\* Lines 207-213: return {} when nothing is left, else loop over unused.
Pruned ==
  /\ pc = "prune" /\ work = {}
  /\ IF unused = {}
     THEN result' = EmptyDict /\ pc' = "done" /\ UNCHANGED <<work, replacements>>
     ELSE replacements' = EmptyDict /\ work' = unused /\ pc' = "replace"
          /\ UNCHANGED result
  /\ UNCHANGED <<graphVars, ctxVars, fileVars, product_deps, todo, used, unused, notUnused>>

\* Faulty variant: suggests classified targets too.
suggestions_Unfiltered(dep) ==
  {concrete_derived_from(t) :
     t \in {c \in closure(dep) \ {dep} : product_deps \cap files_for_target(c) # {}}}

\* Faulty variant: suggests the target found, not its concrete origin.
suggestions_NotConcrete(dep) ==
  {c \in closure(dep) : c \notin used /\ c \notin unused
                        /\ product_deps \cap files_for_target(c) # {}}

\* Lines 214-219: the replacements of one unused dep.
suggestions(dep) ==
  {concrete_derived_from(t) :
     t \in {c \in closure(dep) : c \notin used /\ c \notin unused
                                 /\ product_deps \cap files_for_target(c) # {}}}

\* Lines 213-219, one iteration.
Replace ==
  /\ pc = "replace"
  /\ \E dep \in work :
       /\ replacements' = [x \in DOMAIN replacements \cup {dep} |->
                             IF x = dep THEN suggestions(dep) ELSE replacements[x]]
       /\ work' = work \ {dep}
  /\ UNCHANGED <<graphVars, ctxVars, fileVars, pc, product_deps, todo, used, unused,
                 result, notUnused>>

\* Line 221.
Return ==
  /\ pc = "replace" /\ work = {}
  /\ result' = replacements
  /\ pc' = "done"
  /\ UNCHANGED <<graphVars, ctxVars, fileVars, product_deps, todo, used, unused, work,
                 replacements, notUnused>>

\* Build graphs of the unused-deps runs: the compiled target declares distinct
\* dependencies in any order, the others list theirs in ascending order.
UnusedDeps(t) ==
  {q \in SeqsUpTo({u \in Targets : u > t}, LastTarget - t) :
     /\ \A i, j \in 1..Len(q) : i < j => q[i] # q[j]
     /\ t # Root => \A i, j \in 1..Len(q) : i < j => q[i] < q[j]}

UnusedGraphs == FunctionsFrom([t \in Targets |-> UnusedDeps(t)], 1)

UnusedKinds == {"Target", "JvmTarget", "JavacPlugin", "Resources", "UnpackedJars"}

UnusedInit ==
  /\ dependencies \in UnusedGraphs
  /\ closure(Root) = Targets
  /\ kind \in [Targets -> UnusedKinds]
  /\ kind[Root] = "JvmTarget"
  /\ Cardinality({t \in Targets : kind[t] # "JvmTarget"}) <= MaxSpecial
  /\ derived_from \in DerivationForests
  /\ compiler_plugin_types = {"JavacPlugin"}
  /\ strict_deps = TRUE
  /\ pc = "start"
  /\ sources = [t \in Targets |-> {}]
  /\ java_sources = [t \in Targets |-> {}]
  /\ runtime_classpath = [t \in Targets |-> [contents |-> {ClassOf(t)}, jars |-> {}]]
  /\ UnusedIdle
  /\ StrictIdle
  /\ TransIdle
  /\ IndexIdle
  /\ BootIdle

UnusedNext ==
  \/ UnusedStart
  \/ Classify
  \/ Classified
  \/ Promote
  \/ Promoted
  \/ Prune
  \/ Pruned
  \/ Replace
  \/ Return

UnusedSpec == UnusedInit /\ [][UnusedNext]_vars

\* ------------------------------------- compute_transitive_deps_by_target
\* build_graph.sort_targets(targets): the targets and the targets they depend on,
\* most dependent first.  The set of them; the loop below takes them in any order
\* that reversed(sort_targets(...)) can have, dependencies before dependents.
sort_targets(ts) == UNION {closure(t) : t \in ts}

\* hasattr(target, 'java_sources')
has_java_sources(t) == kind[t] = "ScalaLibrary"

\* transitive_deps_by_target.get(dep, [])
tdbt_get(dep) ==
  IF dep \in DOMAIN transitive_deps_by_target
  THEN transitive_deps_by_target[dep] ELSE {}

\* Line 124: sort the targets.
TransStart ==
  /\ pc = "start"
  /\ sorted_targets' = sort_targets(targets)
  /\ transitive_deps_by_target' = EmptyDict
  /\ pc' = "loop"
  /\ UNCHANGED <<graphVars, ctxVars, fileVars, targets, notTrans>>

\* Faulty variant: lines 128-131 without the update from the dependency's own entry.
transitive_deps_DirectOnly(target) == Range(dependencies[target])

\* Lines 128-131: the direct dependencies and what each of them maps to.
transitive_deps(target) ==
  UNION {tdbt_get(dependencies[target][i]) \cup {dependencies[target][i]} :
           i \in 1..Len(dependencies[target])}

\* Lines 135-138: the entries of the java_sources targets that have dependencies,
\* each extended (created, in a defaultdict) by its direct dependencies.
java_sources_entries(target) ==
  IF has_java_sources(target)
  THEN {j \in java_sources[target] : dependencies[j] # <<>>}
  ELSE {}

\* Lines 127-140, one iteration of the loop over the sorted targets.
TransStep ==
  /\ pc = "loop"
  /\ \E target \in sorted_targets :
       /\ \A d \in Range(dependencies[target]) : d \notin sorted_targets
       /\ LET deps == transitive_deps(target)
              touched == java_sources_entries(target)
          IN transitive_deps_by_target' =
               [x \in DOMAIN transitive_deps_by_target \cup touched \cup {target} |->
                  IF x = target THEN deps
                  ELSE IF x \in touched THEN tdbt_get(x) \cup Range(dependencies[x])
                  ELSE transitive_deps_by_target[x]]
       /\ sorted_targets' = sorted_targets \ {target}
  /\ UNCHANGED <<graphVars, ctxVars, fileVars, pc, targets, notTrans>>

\* Line 141.
TransReturn ==
  /\ pc = "loop" /\ sorted_targets = {}
  /\ pc' = "done"
  /\ UNCHANGED <<graphVars, ctxVars, fileVars, transVars, notTrans>>

\* Acyclic graphs whose targets list their dependencies in ascending order.
AscendingDeps(t) ==
  {q \in SeqsUpTo({u \in Targets : u > t}, LastTarget - t) :
     \A i, j \in 1..Len(q) : i < j => q[i] < q[j]}

AscendingGraphs == FunctionsFrom([t \in Targets |-> AscendingDeps(t)], 1)

\* java_sources of the ScalaLibrary targets: any other targets.
JavaSources ==
  FunctionsFrom([t \in Targets |-> IF kind[t] = "ScalaLibrary"
                                   THEN SUBSET (Targets \ {t}) ELSE {{}}], 1)

TransInit ==
  /\ dependencies \in AscendingGraphs
  /\ kind \in [Targets -> {"JvmTarget", "ScalaLibrary"}]
  /\ Cardinality({t \in Targets : kind[t] = "ScalaLibrary"}) <= MaxScala
  /\ derived_from = [t \in Targets |-> t]
  /\ compiler_plugin_types = {}
  /\ strict_deps = FALSE
  /\ pc = "start"
  /\ sources = [t \in Targets |-> {}]
  /\ java_sources \in JavaSources
  /\ runtime_classpath = [t \in Targets |-> [contents |-> {}, jars |-> {}]]
  /\ targets \in SUBSET Targets
  /\ sorted_targets = {}
  /\ transitive_deps_by_target = EmptyDict
  /\ StrictIdle
  /\ UnusedIdle
  /\ IndexIdle
  /\ BootIdle

TransNext ==
  \/ TransStart
  \/ TransStep
  \/ TransReturn

TransSpec == TransInit /\ [][TransNext]_vars

\* ------------------------------------------------------- targets_by_file
\* OrderedSet.add
ordered_add(oset, x) == IF x \in Range(oset) THEN oset ELSE Append(oset, x)

\* Faulty variant: line 76 as an assignment: the file maps to its last target only.
index_entry_Overwrite(f, target) == <<target>>

\* Line 76: targets_by_file[f].add(target), on a defaultdict(OrderedSet).
index_entry(f, target) ==
  ordered_add(IF f \in DOMAIN targets_by_file THEN targets_by_file[f] ELSE <<>>, target)

\* Lines 74-76, one iteration of the loop over the targets.
IndexStep ==
  /\ pc = "start"
  /\ index_next <= Len(index_targets)
  /\ LET target == index_targets[index_next]
         files == files_for_target(target)
     IN targets_by_file' =
          [f \in DOMAIN targets_by_file \cup files |->
             IF f \in files THEN index_entry(f, target) ELSE targets_by_file[f]]
  /\ index_next' = index_next + 1
  /\ UNCHANGED <<graphVars, ctxVars, fileVars, pc, index_targets, notIndex>>

\* Line 78.
IndexReturn ==
  /\ pc = "start"
  /\ index_next > Len(index_targets)
  /\ pc' = "done"
  /\ UNCHANGED <<graphVars, ctxVars, fileVars, indexVars, notIndex>>

\* The files a target may have: its source file, its class file, a jar that
\* several targets may have on their classpath.
FileChoices ==
  [t \in Targets |->
     {[sources |-> s, contents |-> c, jars |-> j] :
        s \in SUBSET {SourceOf(t)}, c \in SUBSET {ClassOf(t)}, j \in SUBSET {SharedJar}}]

\* Target lists up to renaming of the targets: a target is numbered by its first
\* place in the list.
IndexInputs ==
  {q \in SeqsUpTo(Targets, MaxInput) :
     \A i \in 1..Len(q) : \A u \in 1..(q[i] - 1) : \E j \in 1..(i - 1) : q[j] = u}

\* The index reads the class and the files of the targets passed in and the source
\* files of their java_sources targets; the targets have nothing else.
IndexInit ==
  /\ dependencies = [t \in Targets |-> <<>>]
  /\ index_targets \in IndexInputs
  /\ kind \in [Targets -> {"JvmTarget", "ScalaLibrary", "Resources"}]
  /\ Cardinality({t \in Targets : kind[t] = "ScalaLibrary"}) <= MaxScala
  /\ \A t \in Targets \ Range(index_targets) : kind[t] = "JvmTarget"
  /\ java_sources \in JavaSources
  /\ \E fc \in FunctionsFrom(FileChoices, 1) :
       /\ sources = [t \in Targets |-> fc[t].sources]
       /\ runtime_classpath = [t \in Targets |-> [contents |-> fc[t].contents,
                                                   jars |-> fc[t].jars]]
       /\ \A t \in Targets \ Range(index_targets) :
            /\ fc[t].contents = {} /\ fc[t].jars = {}
            /\ fc[t].sources = {}
                 \/ \E s \in Range(index_targets) : t \in java_sources[s]
  /\ derived_from = [t \in Targets |-> t]
  /\ compiler_plugin_types = {}
  /\ strict_deps = FALSE
  /\ pc = "start"
  /\ index_next = 1
  /\ targets_by_file = EmptyDict
  /\ StrictIdle
  /\ UnusedIdle
  /\ TransIdle
  /\ BootIdle

IndexNext ==
  \/ IndexStep
  \/ IndexReturn

IndexSpec == IndexInit /\ [][IndexNext]_vars

\* ------------------------------------------------ _find_all_bootstrap_jars
\* A path is a sequence of names: <<>> is '', <<d>> the directory d, <<d, n>> the
\* entry n of d, and <<n>> the bare name n, which the process resolves in cwd.
Directories == {"/endorsed", "/ext", "/jre/lib"}
Names == {"a.jar", "README"}

\* s.endswith('.jar')
is_jar_name(n) == n = "a.jar"

\* The entry of the file system a path names, "none" when it names nothing.
entry(p) ==
  IF Len(p) = 2 THEN fs[p]
  ELSE IF Len(p) = 1 /\ p[1] \in Names
  THEN (IF cwd \in Directories THEN fs[<<cwd, p[1]>>] ELSE "none")
  ELSE "none"

\* os.path.isdir
isdir(p) == (Len(p) = 1 /\ p[1] \in Directories) \/ entry(p) = "dir"

\* os.path.isfile
isfile(p) == entry(p) = "file"

\* os.listdir(d): the names in d, in some order.
RECURSIVE SeqOf(_)
SeqOf(S) ==
  IF S = {} THEN <<>>
  ELSE LET x == CHOOSE y \in S : TRUE IN <<x>> \o SeqOf(S \ {x})

listdir(d) == SeqOf({<<n>> : n \in {m \in Names : fs[<<d[1], m>>] # "none"}})

\* Line 98: system_properties.get(key, '').split(':'); '' splits into [''].
get_path(key) ==
  IF system_properties[key].present /\ system_properties[key].paths # <<>>
  THEN system_properties[key].paths
  ELSE << <<>> >>

\* Lines 100-105.
RECURSIVE find_jars_in_dirs(_)
find_jars_in_dirs(dirs) ==
  IF dirs = <<>> THEN <<>>
  ELSE (IF isdir(Head(dirs))
        THEN SelectSeq(listdir(Head(dirs)), LAMBDA s : is_jar_name(s[1]))
        ELSE <<>>) \o find_jars_in_dirs(Tail(dirs))

\* Line 110.
BootClasspath ==
  /\ pc = "start"
  /\ boot_classpath' = get_path("sun.boot.class.path")
  /\ pc' = "overrides"
  /\ UNCHANGED <<fs, cwd, system_properties, override_jars, extension_jars,
                 bootstrap_jars, notBoot>>

\* Line 114.
OverrideJars ==
  /\ pc = "overrides"
  /\ override_jars' = find_jars_in_dirs(get_path("java.endorsed.dirs"))
  /\ pc' = "extensions"
  /\ UNCHANGED <<fs, cwd, system_properties, boot_classpath, extension_jars,
                 bootstrap_jars, notBoot>>

\* Line 115.
ExtensionJars ==
  /\ pc = "extensions"
  /\ extension_jars' = find_jars_in_dirs(get_path("java.ext.dirs"))
  /\ pc' = "filter"
  /\ UNCHANGED <<fs, cwd, system_properties, boot_classpath, override_jars,
                 bootstrap_jars, notBoot>>

\* Lines 118-119.
FilterJars ==
  /\ pc = "filter"
  /\ bootstrap_jars' =
       SelectSeq(override_jars \o boot_classpath \o extension_jars, isfile)
  /\ pc' = "done"
  /\ UNCHANGED <<fs, cwd, system_properties, boot_classpath, override_jars,
                 extension_jars, notBoot>>

\* The values of the three properties: absent, or a path list.
PropertyChoices ==
  [k \in {"java.endorsed.dirs", "sun.boot.class.path", "java.ext.dirs"} |->
     {[present |-> FALSE, paths |-> <<>>]} \cup
     {[present |-> TRUE, paths |-> ps] :
        ps \in CASE k = "java.endorsed.dirs" -> {<< <<"/endorsed">> >>}
                 [] k = "java.ext.dirs" -> {<< <<"/ext">> >>, << <<"/ext">>, <<"/endorsed">> >>}
                 [] OTHER -> {<< <<"/jre/lib", "a.jar">> >>, << <<"/jre/lib">> >>}}]

BootInit ==
  /\ fs \in [Directories \X Names -> {"file", "dir", "none"}]
  /\ cwd \in Directories \cup {"/"}
  /\ system_properties \in
       {p \in [DOMAIN PropertyChoices ->
                 UNION {PropertyChoices[k] : k \in DOMAIN PropertyChoices}] :
          \A k \in DOMAIN PropertyChoices : p[k] \in PropertyChoices[k]}
  /\ boot_classpath = <<>> /\ override_jars = <<>> /\ extension_jars = <<>>
  /\ bootstrap_jars = <<>>
  /\ pc = "start"
  /\ dependencies = [t \in Targets |-> <<>>]
  /\ kind = [t \in Targets |-> "JvmTarget"]
  /\ derived_from = [t \in Targets |-> t]
  /\ compiler_plugin_types = {}
  /\ strict_deps = FALSE
  /\ FilesIdle
  /\ StrictIdle
  /\ UnusedIdle
  /\ TransIdle
  /\ IndexIdle

BootNext ==
  \/ BootClasspath
  \/ OverrideJars
  \/ ExtensionJars
  \/ FilterJars

BootSpec == BootInit /\ [][BootNext]_vars

\* ------------------------------------------------------------- properties
\* The targets reachable from t by one or more dependency edges.
RECURSIVE TransitiveDeps(_)
TransitiveDeps(t) ==
  UNION {{dependencies[t][i]} \cup TransitiveDeps(dependencies[t][i]) :
           i \in 1..Len(dependencies[t])}

DeclaredSet == Range(declared_dependencies)
Consumed(t) == product_deps \cap files_for_target(t) # {}
UnusedDone == pc = "done"

\* C1 as stated: when the files of a target generated from a declared dependency A
\* were consumed and that generated target is not itself declared, A is not
\* reported unused.
C1_PromotionThroughUndeclared ==
  UnusedDone =>
    \A a \in DeclaredSet : \A g \in Targets \ DeclaredSet :
      (a \in derived_from_chain(g) /\ Consumed(g)) => a \notin DOMAIN result

\* C1, amended: when the generated target is itself a declared dependency that is
\* classified (neither Resources nor UnpackedJars) and its files were consumed,
\* the declared dependency A it derives from is not reported unused, also when
\* none of A's own files were consumed.
C1_PromotionThroughDeclared ==
  UnusedDone =>
    \A a \in DeclaredSet : \A g \in DeclaredSet :
      (a \in derived_from_chain(g) /\ ~is_resources_or_unpacked(g) /\ Consumed(g))
        => a \notin DOMAIN result

\* A run that returned a report although a declared dependency without consumed
\* files was promoted through a declared generated target.
C1_Witness ==
  /\ UnusedDone
  /\ result # EmptyDict
  /\ \E a \in DeclaredSet : \E g \in DeclaredSet :
       /\ a \in derived_from_chain(g) /\ Consumed(g) /\ ~is_resources_or_unpacked(g)
       /\ ~Consumed(a) /\ ~is_resources_or_unpacked(a)
       /\ a \in used

\* C2: the replacements of a reported dependency u are exactly the concrete origins
\* of the targets below u that are unclassified and whose files were consumed.
C2_ReplacementsExact ==
  UnusedDone =>
    \A u \in DOMAIN result :
      result[u] = {concrete_derived_from(t) :
                     t \in {c \in TransitiveDeps(u) \ {u} :
                              /\ c \notin used /\ c \notin DOMAIN result
                              /\ Consumed(c)}}

\* A report with two suggested replacements for one dependency, one of them the
\* origin of a generated target.
C2_Witness ==
  /\ UnusedDone
  /\ \E u \in DOMAIN result :
       /\ Cardinality(result[u]) >= 2
       /\ \E t \in TransitiveDeps(u) : concrete_derived_from(t) # t
                                       /\ concrete_derived_from(t) \in result[u]

\* C8: a Resources or UnpackedJars target is never in used or unused, at any step,
\* and never a key of the returned mapping.
C8_ResourcesNeverClassified ==
  \A t \in Targets :
    is_resources_or_unpacked(t) =>
      /\ t \notin used
      /\ t \notin unused
      /\ t \notin DOMAIN replacements
      /\ t \notin DOMAIN result

\* A report was returned for a target that declares a Resources or UnpackedJars
\* dependency whose files were consumed.
C8_Witness ==
  /\ UnusedDone
  /\ result # EmptyDict
  /\ \E t \in DeclaredSet : is_resources_or_unpacked(t) /\ Consumed(t)

\* C9: no two reported dependencies are related by derivation.
C9_NoDerivedPair ==
  UnusedDone =>
    \A u \in DOMAIN result : \A v \in DOMAIN result :
      u # v => v \notin derived_from_chain(u)

\* A'' derived from A' derived from A, all three declared and unused: only A is
\* reported.
C9_Witness ==
  /\ UnusedDone
  /\ \E a \in DeclaredSet : \E b \in DeclaredSet : \E c \in DeclaredSet :
       /\ derived_from[a] = a /\ derived_from[b] = a /\ derived_from[c] = b
       /\ a # b /\ b # c
       /\ ~Consumed(a) /\ ~Consumed(b) /\ ~Consumed(c)
       /\ DOMAIN result = {a}

\* C10 as stated: a suggested replacement is neither reported unused nor in the
\* final used set.
C10_ReplacementUnclassified ==
  UnusedDone =>
    \A u \in DOMAIN result : \A r \in result[u] :
      r \notin DOMAIN result /\ r \notin used

\* C10, amended: a suggested replacement that is classified (in the final used set
\* or reported unused) is the concrete origin of a generated target below u that
\* is itself unclassified and whose files were consumed; a target is never
\* suggested on its own account once it is classified.
C10_ClassifiedOnlyAsOrigin ==
  UnusedDone =>
    \A u \in DOMAIN result : \A r \in result[u] :
      (r \in DOMAIN result \/ r \in used) =>
        \E t \in TransitiveDeps(u) :
          /\ derived_from[t] # t /\ concrete_derived_from(t) = r
          /\ t \notin used /\ t \notin DOMAIN result
          /\ Consumed(t)

\* A report that suggests a dependency the run classified as used.
C10_Witness ==
  /\ UnusedDone
  /\ \E u \in DOMAIN result : \E r \in result[u] : r \in used

\* The resolution of one declared dependency as section 4.1 words it: an alias is
\* the resolution of its own dependencies, a compiler plugin its BFS closure, any
\* other target itself.
RECURSIVE ResolutionOf(_), ResolutionOfAll(_)
ResolutionOf(d) ==
  IF is_alias(d) THEN ResolutionOfAll(dependencies[d])
  ELSE IF is_compiler_plugin(d) THEN closure_bfs(d)
  ELSE <<d>>
ResolutionOfAll(ds) ==
  IF ds = <<>> THEN <<>> ELSE ResolutionOf(Head(ds)) \o ResolutionOfAll(Tail(ds))

StrictDone == pc = "done" /\ strict_deps

\* C3 as stated: the strict dependencies hold no alias.
C3_NoAlias ==
  StrictDone => \A i \in 1..Len(out) : ~is_alias(out[i])

\* C3, amended: an alias in the strict dependencies is a transitive dependency of
\* a compiler plugin that is in the result; resolving declared aliases, however
\* nested, and yielding other dependencies puts no alias in the result.
C3_AliasOnlyBelowPlugin ==
  StrictDone =>
    \A i \in 1..Len(out) :
      is_alias(out[i]) =>
        \E j \in 1..Len(out) :
          is_compiler_plugin(out[j]) /\ out[i] \in TransitiveDeps(out[j])

\* An alias declared inside a declared alias was resolved down to a library, and
\* the result holds no alias.
C3_Witness ==
  /\ StrictDone
  /\ \E a \in Range(dependencies[Root]) :
       /\ is_alias(a)
       /\ \E b \in Range(dependencies[a]) :
            /\ is_alias(b)
            /\ \E c \in Range(dependencies[b]) : ~is_alias(c) /\ c \in Range(out)
  /\ \A i \in 1..Len(out) : ~is_alias(out[i])

\* C4: with strict_deps the result is the target followed by the resolutions of
\* its declared dependencies in declaration order.
C4_StrictSequence ==
  StrictDone => out = <<Root>> \o ResolutionOfAll(dependencies[Root])

\* A result that holds a library reached through an alias, the closure of a
\* compiler plugin and a dependency yielded as it is.
C4_Witness ==
  /\ StrictDone
  /\ \E a \in Range(dependencies[Root]) : is_alias(a) /\ dependencies[a] # <<>>
  /\ \E p \in Range(out) : is_compiler_plugin(p) /\ dependencies[p] # <<>>
  /\ \E d \in Range(dependencies[Root]) : ~is_alias(d) /\ ~is_compiler_plugin(d)
  /\ Len(out) >= 4

TransDone == pc = "done" /\ targets # {}

IndexDone == pc = "done"

\* C6: targets_by_file is the inversion of files_for_target over the targets passed
\* in: a target is listed under a file exactly when it was passed in and has the
\* file, and no key has an empty value.
C6_IndexInversion ==
  IndexDone =>
    /\ \A f \in DOMAIN targets_by_file :
         /\ targets_by_file[f] # <<>>
         /\ \A t \in Range(targets_by_file[f]) :
              t \in Range(index_targets) /\ f \in files_for_target(t)
    /\ \A t \in Range(index_targets) : \A f \in files_for_target(t) :
         f \in DOMAIN targets_by_file /\ t \in Range(targets_by_file[f])

\* Two targets were indexed under one jar, and a ScalaLibrary under a source file of
\* a java_sources target of it.
C6_Witness ==
  /\ IndexDone
  /\ SharedJar \in DOMAIN targets_by_file
  /\ Len(targets_by_file[SharedJar]) = 2
  /\ \E s \in Range(index_targets) : \E j \in java_sources[s] :
       /\ SourceOf(j) \in DOMAIN targets_by_file
       /\ s \in Range(targets_by_file[SourceOf(j)])

BootDone == pc = "done"

\* The file a path of the returned list names for the process.
Resolved(p) == IF Len(p) = 1 /\ p[1] \in Names THEN <<cwd, p[1]>> ELSE p

\* The directories a property lists that exist.
ListedDirs(key) ==
  {d \in Range(get_path(key)) : Len(d) = 1 /\ d[1] \in Directories}

\* C7: every regular .jar file directly inside an override or extension directory
\* is named by the returned list, whatever the working directory; every path of
\* the list names a regular file.
C7_AllDirectoryJarsListed ==
  BootDone =>
    /\ \A d \in ListedDirs("java.endorsed.dirs") \cup ListedDirs("java.ext.dirs") :
         \A n \in Names :
           (is_jar_name(n) /\ fs[<<d[1], n>>] = "file") =>
             \E i \in 1..Len(bootstrap_jars) : Resolved(bootstrap_jars[i]) = <<d[1], n>>
    /\ \A i \in 1..Len(bootstrap_jars) : isfile(bootstrap_jars[i])

====
